---- MODULE Spec2Model ----
(***************************************************************************)
(* BELLAddEventFunction (src/index.js): an HTTP handler that stores an     *)
(* event, invokes the reminder function for the Immediate reminder and     *)
(* creates one EventBridge Scheduler schedule per later reminder.          *)
(*                                                                         *)
(* The handler is an async function: it runs without interruption from one *)
(* await to the next.  Each action below is one such run.  Several         *)
(* execution environments (Containers) run the handler concurrently and    *)
(* share the table, the scheduler and the clock.                           *)
(*                                                                         *)
(* Time is Date's millisecond count, taken from 2030-06-01T00:00:00Z       *)
(* instead of 1970 so that it fits TLC's integers; every date the model    *)
(* handles lies in June 2030.  Comparisons and differences of instants do  *)
(* not depend on where the count starts.                                   *)
(***************************************************************************)
EXTENDS Bags, FiniteSets, Integers, Sequences, TLC

VARIABLES
    env,          \* process.env: ReminderLambdaArn, SchedulerRoleArn
    now,          \* the clock read by new Date().getTime()
    invocations,  \* handler invocations started so far
    uuids,        \* identifiers uuid.v4() has produced so far
    inv,          \* per container: the running (or last) invocation
    table,        \* the items of the DynamoDB table Events
    putFailed,    \* EventIDs whose dynamodb.put was rejected
    invokeLog,    \* bag of the lambda.invoke requests issued
    scheduleLog,  \* bag of the scheduler.createSchedule requests issued
    schedules,    \* the schedules the scheduler has created
    registrar     \* createReminderRule called on its own: the calls made so
                  \* far and, per caller, the call in progress (or the last)

vars == <<env, now, invocations, uuids, inv, table, putFailed, invokeLog,
          scheduleLog, schedules, registrar>>

-----------------------------------------------------------------------------
(* Bounds of the model *)

Containers == {"c1", "c2"}

MaxInvocations == 2

MaxTicks == 1

TickMs == 12 * 60 * 60 * 1000

-----------------------------------------------------------------------------
(* JavaScript values *)

Undefined == "undefined"

NaN == [nan |-> TRUE, ms |-> 0]

Num(n) == [nan |-> FALSE, ms |-> n]

\* x <= y and x >= y on numbers: false whenever an operand is NaN
Leq(x, y) == ~x.nan /\ ~y.nan /\ x.ms <= y.ms

Geq(x, y) == ~x.nan /\ ~y.nan /\ x.ms >= y.ms

\* !x for the values a field of the body takes here
Falsy(x) == x = Undefined \/ x = ""

-----------------------------------------------------------------------------
(* Inputs *)

Methods == {"OPTIONS", "POST", "GET"}

EventNames == {Undefined, "", "Board Meeting"}

EventDates == {Undefined, "not-a-date", "2030-06-02", "2030-06-10"}

EventTimes == {"", "00:00"}

\* event.body absent or not JSON text of an object
AbsentBody ==
    [kind |-> "absent", eventName |-> Undefined, eventDate |-> Undefined,
     eventTime |-> Undefined]

ObjectBodies ==
    [kind : {"object"}, eventName : EventNames, eventDate : EventDates,
     eventTime : EventTimes]

Bodies == {AbsentBody} \cup ObjectBodies

EnvValues ==
    [ReminderLambdaArn : {Undefined, "arn:aws:lambda:BELLCreateRemindersFunction"},
     SchedulerRoleArn : {Undefined, "arn:aws:iam:role/SchedulerRole"}]

-----------------------------------------------------------------------------
(* Dates: new Date(text), getTime() and the getUTC... readers *)

MsPerDay == 24 * 60 * 60 * 1000

\* the host's offset from UTC, in hours (the Lambda runtime runs in UTC)
HostUtcOffsetHours == 0

\* the YYYY-MM-DD texts the date parser is given here, with their fields
DateFields ==
    [d \in {"2030-06-01", "2030-06-02", "2030-06-10"} |->
        [year |-> 2030, month |-> 6,
         day |-> CASE d = "2030-06-01" -> 1
                   [] d = "2030-06-02" -> 2
                   [] d = "2030-06-10" -> 10]]

\* the HH:MM texts the date parser is given here, with their fields
TimeFields == [t \in {"00:00"} |-> [hour |-> 0, minute |-> 0]]

\* milliseconds from 2030-06-01T00:00:00Z to a UTC date-time of June 2030
UtcMs(day, hour, minute, second) ==
    ((((day - 1) * 24 + hour) * 60 + minute) * 60 + second) * 1000

\* new Date(text).getTime() for a date-time text without zone: local time;
\* a text that is not YYYY-MM-DDTHH:MM:SS gives an Invalid Date (NaN)
DateParse(text) ==
    IF \E d \in DOMAIN DateFields, t \in DOMAIN TimeFields :
           text = d \o "T" \o t \o ":00"
    THEN LET d == CHOOSE d \in DOMAIN DateFields :
                      \E t \in DOMAIN TimeFields : text = d \o "T" \o t \o ":00"
             t == CHOOSE t \in DOMAIN TimeFields : text = d \o "T" \o t \o ":00"
         IN  Num(UtcMs(DateFields[d].day, TimeFields[t].hour - HostUtcOffsetHours,
                       TimeFields[t].minute, 0))
    ELSE NaN

UtcFieldsMut(time) ==
    IF time.nan
    THEN [minute |-> NaN, hour |-> NaN, date |-> NaN, month |-> NaN, year |-> NaN]
    ELSE [minute |-> Num(((time.ms + 30 * 1000) \div (60 * 1000)) % 60),
          hour   |-> Num((time.ms \div (60 * 60 * 1000)) % 24),
          date   |-> Num((time.ms \div MsPerDay) + 1),
          month  |-> Num(5),
          year   |-> Num(2030)]

\* the UTC readers of a Date of June 2030; each is NaN for an Invalid Date
UtcFields(time) ==
    IF time.nan
    THEN [minute |-> NaN, hour |-> NaN, date |-> NaN, month |-> NaN, year |-> NaN]
    ELSE [minute |-> Num((time.ms \div (60 * 1000)) % 60),
          hour   |-> Num((time.ms \div (60 * 60 * 1000)) % 24),
          date   |-> Num((time.ms \div MsPerDay) + 1),
          month  |-> Num(5),
          year   |-> Num(2030)]

\* `${n}` of a number
NumText(n) == IF n.nan THEN "NaN" ELSE ToString(n.ms)

convertToUTCTimestampMut(eventDate, eventTime, daysBefore) ==
    LET localDateTime == DateParse(eventDate \o "T" \o eventTime \o ":00")
    IN  IF localDateTime.nan THEN NaN
        ELSE Num(localDateTime.ms + daysBefore * MsPerDay)

convertToUTCTimestamp(eventDate, eventTime, daysBefore) ==
    LET localDateTime == DateParse(eventDate \o "T" \o eventTime \o ":00")
    IN  IF localDateTime.nan THEN NaN
        ELSE Num(localDateTime.ms - daysBefore * MsPerDay)

\* date.getUTCMinutes() ... date.getUTCFullYear() as put into the expression
CronFields(timestamp) ==
    LET f == UtcFields(timestamp)
    IN  [minute |-> f.minute, hour |-> f.hour, date |-> f.date,
         month |-> IF f.month.nan THEN NaN ELSE Num(f.month.ms + 1),
         year |-> f.year]

cronExpression(timestamp) ==
    LET f == CronFields(timestamp)
    IN  "cron(" \o NumText(f.minute) \o " " \o NumText(f.hour) \o " "
            \o NumText(f.date) \o " " \o NumText(f.month) \o " ? "
            \o NumText(f.year) \o ")"

-----------------------------------------------------------------------------
(* exports.handler: its tests, values and responses *)

MissingRequiredFieldsMut(body) == Falsy(body.eventName) \/ Falsy(body.eventDate)

\* !eventName || !eventDate || !eventTime
MissingRequiredFields(body) ==
    Falsy(body.eventName) \/ Falsy(body.eventDate) \/ Falsy(body.eventTime)

uuidV4Mut(produced) == "uuid-1"

\* uuid.v4(): an identifier never produced before
uuidV4(produced) == "uuid-" \o ToString(produced + 1)

EventItemMut(eventId, body) ==
    [EventID |-> eventId, EventName |-> body.eventName,
     EventDate |-> body.eventTime, EventTime |-> body.eventDate]

\* the Item of the put on the table Events
EventItem(eventId, body) ==
    [EventID |-> eventId, EventName |-> body.eventName,
     EventDate |-> body.eventDate, EventTime |-> body.eventTime]

NoResponse == [statusCode |-> 0, message |-> "", eventID |-> Undefined]

OptionsResponse == [statusCode |-> 200, message |-> "", eventID |-> Undefined]

BadRequestResponse ==
    [statusCode |-> 400, message |-> "Missing required fields", eventID |-> Undefined]

SuccessResponse(eventId) ==
    [statusCode |-> 200, message |-> "Event created successfully!", eventID |-> eventId]

MethodNotAllowedResponseMut ==
    [statusCode |-> 200, message |-> "Method Not Allowed", eventID |-> Undefined]

MethodNotAllowedResponse ==
    [statusCode |-> 405, message |-> "Method Not Allowed", eventID |-> Undefined]

ErrorResponseMut ==
    [statusCode |-> 200, message |-> "Internal server error", eventID |-> Undefined]

\* the response of the handler's catch
ErrorResponse ==
    [statusCode |-> 500, message |-> "Internal server error", eventID |-> Undefined]

PutResultMut(ok) == "returns"

\* await dynamodb.put(params).promise(): a rejection throws into the catch
PutResult(ok) == IF ok THEN "returns" ELSE "throws"

\* the reminders the handler creates rules for, in call order
ReminderPlan ==
    << [reminderType |-> "OneWeek", daysBefore |-> 7],
       [reminderType |-> "ThreeDays", daysBefore |-> 3],
       [reminderType |-> "OneDay", daysBefore |-> 1] >>

-----------------------------------------------------------------------------
(* invokeImmediateReminder *)

\* !reminderLambdaArn
ReminderLambdaArnMissing(e) == e.ReminderLambdaArn = Undefined

ImmediatePayload(body) ==
    [eventName |-> body.eventName, eventDate |-> body.eventDate,
     eventTime |-> body.eventTime, reminderType |-> "Immediate"]

InvokeRequestsMut(body, e) ==
    LET request == [FunctionName |-> e.ReminderLambdaArn, InvocationType |-> "Event",
                    Payload |-> ImmediatePayload(body)]
    IN  << request, request >>

\* the lambda.invoke requests one call of invokeImmediateReminder issues
InvokeRequests(body, e) ==
    << [FunctionName |-> e.ReminderLambdaArn, InvocationType |-> "Event",
        Payload |-> ImmediatePayload(body)] >>

invokeImmediateReminderResultMut(ok) == "returns"

\* try { await lambda.invoke(...).promise() } catch (error) { throw error }
invokeImmediateReminderResult(ok) == IF ok THEN "returns" ELSE "throws"

-----------------------------------------------------------------------------
(* createReminderRule *)

ruleNameMut(eventId, reminderType) == eventId

ruleName(eventId, reminderType) == eventId \o "-" \o reminderType

IsPastMut(timestamp, currentTimestamp) ==
    ~timestamp.nan /\ ~currentTimestamp.nan /\ timestamp.ms < currentTimestamp.ms

\* timestamp <= currentTimestamp
IsPast(timestamp, currentTimestamp) == Leq(timestamp, currentTimestamp)

NotBeforeEventMut(timestamp, eventTimestamp) == Leq(timestamp, eventTimestamp)

\* timestamp >= eventTimestamp
NotBeforeEvent(timestamp, eventTimestamp) == Geq(timestamp, eventTimestamp)

\* The two tests of createReminderRule in the order of the code: which of
\* them returns, if any ("past" for the first, "notBefore" for the second)
Skipping(timestamp, currentTimestamp, eventTimestamp) ==
    IF IsPast(timestamp, currentTimestamp) THEN "past"
    ELSE IF NotBeforeEvent(timestamp, eventTimestamp) THEN "notBefore"
    ELSE "none"

\* the params of scheduler.createSchedule
ScheduleParams(eventId, reminderType, timestamp, body, e) ==
    [Name |-> ruleName(eventId, reminderType),
     ScheduleExpression |-> cronExpression(timestamp),
     State |-> "ENABLED",
     Target |-> [Arn |-> e.ReminderLambdaArn,
                 RoleArn |-> e.SchedulerRoleArn,
                 Input |-> [eventName |-> body.eventName, eventDate |-> body.eventDate,
                            eventTime |-> body.eventTime, reminderType |-> reminderType]],
     FlexibleTimeWindow |-> [Mode |-> "OFF"]]

createReminderRuleResultMut(ok) == "returns"

\* try { await scheduler.createSchedule(params).promise() } catch (error) { throw error }
createReminderRuleResult(ok) == IF ok THEN "returns" ELSE "throws"

\* The scheduler creates a schedule only from a request it can read: every
\* field of the expression a number, the role that invokes the target given.
SchedulerAccepts(request, fields) ==
    /\ ~fields.minute.nan /\ ~fields.hour.nan /\ ~fields.date.nan
    /\ ~fields.month.nan /\ ~fields.year.nan
    /\ request.Target.RoleArn # Undefined

\* createSchedule creates: a request whose Name a held schedule has is rejected
NameTaken(held, request) == \E s \in held : s.params.Name = request.Name

\* the UTC minute at which the scheduler fires a schedule of June 2030
FireInstant(fields) == UtcMs(fields.date.ms, fields.hour.ms, fields.minute.ms, 0)

\* the schedule the scheduler holds once it has accepted the request of the
\* call createReminderRule(eventId, reminderType, timestamp, ...body)
Schedule(eventId, reminderType, timestamp, body, e) ==
    [by |-> eventId,
     reminderType |-> reminderType,
     params |-> ScheduleParams(eventId, reminderType, timestamp, body, e),
     fires |-> FireInstant(CronFields(timestamp)),
     eventAt |-> convertToUTCTimestamp(body.eventDate, body.eventTime, 0).ms]

PutMut(items, item) == {item}

\* dynamodb.put: the item takes the place of any item with its key
Put(items, item) == {i \in items : i.EventID # item.EventID} \cup {item}

-----------------------------------------------------------------------------
(* The state machine *)

Idle ==
    [pc |-> "idle", method |-> "", body |-> AbsentBody, eventId |-> Undefined,
     offset |-> 0, clock |-> <<>>, skipped |-> {}, fault |-> "none",
     response |-> NoResponse]

\* no createReminderRule call made on its own
NoCall ==
    [pc |-> "idle", eventId |-> Undefined, reminderType |-> "", timestamp |-> NaN,
     body |-> AbsentBody, clock |-> <<>>, params |-> <<>>, outcome |-> "none"]

Init ==
    /\ env \in EnvValues
    /\ now = 0
    /\ invocations = 0
    /\ uuids = 0
    /\ inv = [c \in Containers |-> Idle]
    /\ table = {}
    /\ putFailed = {}
    /\ invokeLog = EmptyBag
    /\ scheduleLog = EmptyBag
    /\ schedules = {}
    /\ registrar = [calls |-> 0, call |-> [c \in Containers |-> NoCall]]

\* the handler returns `response`
Return(r, response) ==
    [r EXCEPT !.pc = "done", !.response = response, !.clock = <<>>]

\* an exception reaches the handler's catch
Catch(r, fault) ==
    Return([r EXCEPT !.fault = IF @ = "none" THEN fault ELSE @], ErrorResponse)

\* the bag of the requests `requests` (a sequence), each marked with the
\* EventID of the submission that issues it
RECURSIVE Issued(_, _)
Issued(eventId, requests) ==
    IF requests = <<>> THEN EmptyBag
    ELSE SetToBag({[by |-> eventId, request |-> Head(requests)]})
             (+) Issued(eventId, Tail(requests))

CandidateMut(r, k) ==
    convertToUTCTimestamp(r.body.eventDate, r.body.eventTime,
                          ReminderPlan[1].daysBefore)

\* the timestamp the handler passes to createReminderRule for the k-th reminder
Candidate(r, k) ==
    convertToUTCTimestamp(r.body.eventDate, r.body.eventTime,
                          ReminderPlan[k].daysBefore)

\* the createSchedule params of the createReminderRule call for the k-th reminder
Params(r, k) ==
    ScheduleParams(r.eventId, ReminderPlan[k].reminderType, Candidate(r, k),
                   r.body, env)

\* The handler calls createReminderRule for the k-th reminder and runs on to
\* the next await: the await of scheduler.createSchedule in this call or in a
\* later one (a call that skips its schedule returns at once, and the handler
\* goes on to the next call), or else to the handler's return.  `clock` holds
\* currentTimestamp, the clock reading of the call in progress.
RECURSIVE createReminderRule(_, _)
createReminderRule(r, k) ==
    IF k > Len(ReminderPlan)
    THEN Return(r, SuccessResponse(r.eventId))
    ELSE LET r1 == [r EXCEPT !.offset = k, !.clock = <<now>>]
             timestamp == Candidate(r, k)
             currentTimestamp == Num(now)
             eventTimestamp ==
                 convertToUTCTimestamp(r.body.eventDate, r.body.eventTime, 0)
             skipping == Skipping(timestamp, currentTimestamp, eventTimestamp)
         IN  IF ReminderLambdaArnMissing(env)
             THEN Catch(r1, "config")
             ELSE IF skipping # "none"
             THEN createReminderRule(
                      [r1 EXCEPT !.skipped = @ \cup {[offset |-> k, why |-> skipping]}],
                      k + 1)
             ELSE [r1 EXCEPT !.pc = "schedule"]

\* the createSchedule requests issued by a run that ends in the state r
Scheduled(r) ==
    IF r.pc = "schedule" THEN Issued(r.eventId, <<Params(r, r.offset)>>) ELSE EmptyBag

\* The handler is invoked and runs up to the await of dynamodb.put, or returns.
Receive(c) ==
    /\ inv[c].pc \in {"idle", "done"}
    /\ invocations < MaxInvocations
    /\ invocations' = invocations + 1
    /\ \E method \in Methods, body \in Bodies :
        /\ method # "POST" => body = AbsentBody
        /\ LET r == [Idle EXCEPT !.method = method, !.body = body]
           IN  IF method = "OPTIONS"
               THEN /\ inv' = [inv EXCEPT ![c] = Return(r, OptionsResponse)]
                    /\ uuids' = uuids
               ELSE IF method # "POST"
               THEN /\ inv' = [inv EXCEPT ![c] = Return(r, MethodNotAllowedResponse)]
                    /\ uuids' = uuids
               ELSE IF body.kind # "object"
               THEN /\ inv' = [inv EXCEPT ![c] = Catch(r, "body")]
                    /\ uuids' = uuids
               ELSE IF MissingRequiredFields(body)
               THEN /\ inv' = [inv EXCEPT ![c] = Return(r, BadRequestResponse)]
                    /\ uuids' = uuids
               ELSE /\ inv' = [inv EXCEPT ![c] =
                                  [r EXCEPT !.pc = "put", !.eventId = uuidV4(uuids)]]
                    /\ uuids' = uuids + 1
    /\ UNCHANGED <<env, now, table, putFailed, invokeLog, scheduleLog, schedules,
                   registrar>>

\* dynamodb.put settles; on success the handler calls invokeImmediateReminder,
\* which throws without the ARN and otherwise awaits lambda.invoke.
PutSettles(c) ==
    /\ inv[c].pc = "put"
    /\ \E ok \in BOOLEAN :
        LET r == [inv[c] EXCEPT !.fault = IF ok THEN @ ELSE "put"]
        IN  /\ table' = IF ok THEN Put(table, EventItem(r.eventId, r.body)) ELSE table
            /\ putFailed' = IF ok THEN putFailed ELSE putFailed \cup {r.eventId}
            /\ IF PutResult(ok) = "throws"
               THEN /\ inv' = [inv EXCEPT ![c] = Catch(r, "put")]
                    /\ invokeLog' = invokeLog
               ELSE IF ReminderLambdaArnMissing(env)
               THEN /\ inv' = [inv EXCEPT ![c] = Catch(r, "config")]
                    /\ invokeLog' = invokeLog
               ELSE /\ inv' = [inv EXCEPT ![c] = [r EXCEPT !.pc = "invoke"]]
                    /\ invokeLog' = invokeLog (+)
                          Issued(r.eventId, InvokeRequests(r.body, env))
    /\ UNCHANGED <<env, now, invocations, uuids, scheduleLog, schedules, registrar>>

\* lambda.invoke settles; on success the handler goes on to the
\* createReminderRule calls.
InvokeSettles(c) ==
    /\ inv[c].pc = "invoke"
    /\ \E ok \in BOOLEAN :
        LET r == [inv[c] EXCEPT !.fault = IF ok \/ @ # "none" THEN @ ELSE "invoke"]
            after == IF invokeImmediateReminderResult(ok) = "throws"
                     THEN Catch(r, "invoke")
                     ELSE createReminderRule(r, 1)
        IN  /\ inv' = [inv EXCEPT ![c] = after]
            /\ scheduleLog' = scheduleLog (+) Scheduled(after)
    /\ UNCHANGED <<env, now, invocations, uuids, table, putFailed, invokeLog,
                   schedules, registrar>>

\* scheduler.createSchedule settles: the schedule exists, or the call is
\* rejected; on success the handler goes on to the next createReminderRule call.
ScheduleSettles(c) ==
    /\ inv[c].pc = "schedule"
    /\ \E ok \in BOOLEAN :
        LET r == [inv[c] EXCEPT !.fault = IF ok \/ @ # "none" THEN @ ELSE "schedule"]
            fields == CronFields(Candidate(r, r.offset))
            after == IF createReminderRuleResult(ok) = "throws"
                     THEN Catch(r, "schedule")
                     ELSE createReminderRule(r, r.offset + 1)
        IN  /\ ok => /\ SchedulerAccepts(Params(r, r.offset), fields)
                     /\ ~NameTaken(schedules, Params(r, r.offset))
            /\ schedules' =
                   IF ok
                   THEN schedules \cup
                            {Schedule(r.eventId, ReminderPlan[r.offset].reminderType,
                                      Candidate(r, r.offset), r.body, env)}
                   ELSE schedules
            /\ inv' = [inv EXCEPT ![c] = after]
            /\ scheduleLog' = scheduleLog (+) Scheduled(after)
    /\ UNCHANGED <<env, now, invocations, uuids, table, putFailed, invokeLog,
                   registrar>>

\* time passes
Tick ==
    /\ now < MaxTicks * TickMs
    /\ now' = now + TickMs
    /\ UNCHANGED <<env, invocations, uuids, inv, table, putFailed, invokeLog,
                   scheduleLog, schedules, registrar>>

Next ==
    \/ \E c \in Containers :
          \/ Receive(c)
          \/ PutSettles(c)
          \/ InvokeSettles(c)
          \/ ScheduleSettles(c)
    \/ Tick

Spec == Init /\ [][Next]_vars

-----------------------------------------------------------------------------
(* createReminderRule called on its own, with arguments of the caller's      *)
(* choice: the same scheduler, clock and environment, no handler around it   *)

RegistrarEventIds == {"uuid-1"}

RegistrarReminderTypes == {"OneWeek"}

\* 2030-06-01T00:00:00Z, 2030-06-03T00:00:00Z, T00:00:59Z, T00:01:00Z and
\* T01:00:00Z, 2030-06-04T00:00:00Z, 2030-06-10T00:00:00Z
RegistrarTimestamps ==
    {Num(0), Num(2 * MsPerDay), Num(2 * MsPerDay + 59 * 1000),
     Num(2 * MsPerDay + 60 * 1000), Num(2 * MsPerDay + 60 * 60 * 1000),
     Num(3 * MsPerDay), Num(9 * MsPerDay)}

RegistrarBodies ==
    [kind : {"object"}, eventName : {"Board Meeting"},
     eventDate : {"2030-06-01", "2030-06-10"}, eventTime : {"00:00"}]

\* One call of createReminderRule, run to its await of createSchedule or to
\* its end: it throws without the ARN, returns when one of its tests applies,
\* and otherwise awaits the scheduler.
createReminderRuleCall(eventId, reminderType, timestamp, body, e, currentTimestamp) ==
    LET eventTimestamp == convertToUTCTimestamp(body.eventDate, body.eventTime, 0)
        skipping == Skipping(timestamp, Num(currentTimestamp), eventTimestamp)
        call == [NoCall EXCEPT !.eventId = eventId, !.reminderType = reminderType,
                               !.timestamp = timestamp, !.body = body,
                               !.clock = <<currentTimestamp>>]
    IN  IF ReminderLambdaArnMissing(e)
        THEN [call EXCEPT !.pc = "done", !.outcome = "throws"]
        ELSE IF skipping # "none"
        THEN [call EXCEPT !.pc = "done", !.outcome = skipping]
        ELSE [call EXCEPT !.pc = "schedule", !.outcome = "awaits",
                          !.params = <<ScheduleParams(eventId, reminderType,
                                                      timestamp, body, e)>>]

\* the createSchedule params of a call that awaits the scheduler
CallParams(call) == call.params[1]

\* a caller calls createReminderRule
RegistrarCalls(c) ==
    /\ registrar.call[c].pc \in {"idle", "done"}
    /\ registrar.calls < MaxInvocations
    /\ \E eventId \in RegistrarEventIds, reminderType \in RegistrarReminderTypes,
          timestamp \in RegistrarTimestamps, body \in RegistrarBodies :
          LET call == createReminderRuleCall(eventId, reminderType, timestamp, body,
                                             env, now)
          IN  /\ registrar' = [calls |-> registrar.calls + 1,
                               call |-> [registrar.call EXCEPT ![c] = call]]
              /\ scheduleLog' = IF call.pc = "schedule"
                                THEN scheduleLog (+) Issued(eventId, <<CallParams(call)>>)
                                ELSE scheduleLog
    /\ UNCHANGED <<env, now, invocations, uuids, inv, table, putFailed, invokeLog,
                   schedules>>

\* scheduler.createSchedule settles for a call made on its own
RegistrarSettles(c) ==
    /\ registrar.call[c].pc = "schedule"
    /\ \E ok \in BOOLEAN :
        LET call == registrar.call[c]
        IN  /\ ok => /\ SchedulerAccepts(CallParams(call), CronFields(call.timestamp))
                     /\ ~NameTaken(schedules, CallParams(call))
            /\ schedules' =
                   IF ok
                   THEN schedules \cup {Schedule(call.eventId, call.reminderType,
                                                 call.timestamp, call.body, env)}
                   ELSE schedules
            /\ registrar' =
                   [registrar EXCEPT
                       !.call[c] = [call EXCEPT !.pc = "done",
                                                !.outcome = createReminderRuleResult(ok)]]
    /\ UNCHANGED <<env, now, invocations, uuids, inv, table, putFailed, invokeLog,
                   scheduleLog>>

RegistrarNext ==
    \/ \E c \in Containers :
          \/ RegistrarCalls(c)
          \/ RegistrarSettles(c)
    \/ Tick

RegistrarSpec == Init /\ [][RegistrarNext]_vars

-----------------------------------------------------------------------------
(* Notions the properties below are stated with *)

\* a POST invocation, in progress or returned
Submission(c) == inv[c].pc # "idle" /\ inv[c].method = "POST"

Returned(c) == inv[c].pc = "done"

Status(c) == inv[c].response.statusCode

\* the body names an event and gives a date and a time that resolve to an instant
WellFormed(body) ==
    /\ body.kind = "object"
    /\ body.eventName = "Board Meeting"
    /\ body.eventDate \in {"2030-06-02", "2030-06-10"}
    /\ body.eventTime = "00:00"

\* the event's instant, from the calendar: midnight UTC of its day of June 2030
EventInstant(body) ==
    CASE body.eventDate = "2030-06-02" -> 1 * MsPerDay
      [] body.eventDate = "2030-06-10" -> 9 * MsPerDay

Days == [OneWeek |-> 7, ThreeDays |-> 3, OneDay |-> 1]

OffsetNames == <<"OneWeek", "ThreeDays", "OneDay">>

Persisted(eventId) == \E item \in table : item.EventID = eventId

\* the requests of a log issued by the submission eventId, and their number
RequestsBy(log, eventId) == {x \in BagToSet(log) : x.by = eventId}

CountBy(log, eventId) ==
    BagCardinality([x \in RequestsBy(log, eventId) |-> log[x]])

\* the submission eventId has issued a createSchedule request for the offset
Attempted(eventId, offsetName) ==
    \E x \in BagToSet(scheduleLog) :
        x.by = eventId /\ x.request.Target.Input.reminderType = offsetName

\* the scheduler holds a schedule of the submission eventId for the offset
Registered(eventId, offsetName) ==
    \E s \in schedules : s.by = eventId /\ s.reminderType = offsetName

-----------------------------------------------------------------------------
(* C1 *)

\* C1: every invoke request and every createSchedule request was issued by a
\* submission whose record is already in the table, and a submission whose
\* put was rejected has returned 500 and has issued no request of either kind.
C1_PersistBeforeTriggers ==
    /\ \A x \in BagToSet(invokeLog) \cup BagToSet(scheduleLog) : Persisted(x.by)
    /\ \A s \in schedules : Persisted(s.by)
    /\ \A e \in putFailed :
          /\ ~Persisted(e)
          /\ RequestsBy(invokeLog, e) = {}
          /\ RequestsBy(scheduleLog, e) = {}
          /\ \A c \in Containers :
                inv[c].eventId = e => Returned(c) /\ Status(c) = 500

\* one submission's put was rejected while another's reached the scheduler
C1_Witness ==
    /\ \E c \in Containers : inv[c].eventId \in putFailed /\ Status(c) = 500
    /\ \E x \in BagToSet(invokeLog) : Persisted(x.by)
    /\ \E x \in BagToSet(scheduleLog) : Persisted(x.by)

-----------------------------------------------------------------------------
(* C2 *)

-----------------------------------------------------------------------------
(* Notions of a step *)

\* the candidate instant of the k-th offset of an event, from the calendar
CandidateInstant(body, k) == EventInstant(body) - Days[OffsetNames[k]] * MsPerDay

\* The createReminderRule calls the submission in container c makes in the
\* step at hand, none of its awaited calls having been rejected: a call
\* settles, and the handler runs every call from the next offset up to the one
\* that awaits the scheduler, or up to the last one.  All read the clock `now`.
Calls(c) ==
    IF /\ inv[c].pc \in {"invoke", "schedule"}
       /\ inv'[c] # inv[c]
       /\ inv'[c].fault = "none"
    THEN {k \in 1..Len(OffsetNames) :
             /\ k > inv[c].offset
             /\ inv'[c].pc = "schedule" => k <= inv'[c].offset}
    ELSE {}

-----------------------------------------------------------------------------
(* C3 *)

\* C3: whenever the scheduler creates a schedule, the schedule fires strictly
\* after the clock reading of the createReminderRule call that asked for it
\* and strictly before its event; a call whose candidate equals its clock
\* reading issues no request; the two tests reject equality.
C3_TriggersStrictlyBetween ==
    [][ /\ \A s \in schedules' \ schedules :
              /\ \E c \in Containers :
                    /\ inv[c].pc = "schedule"
                    /\ inv[c].eventId = s.by
                    /\ inv[c].clock[1] < s.fires
              /\ s.fires < EventInstant(s.params.Target.Input)
        /\ \A c \in Containers :
              WellFormed(inv[c].body) =>
                  /\ \A k \in Calls(c) :
                        now = CandidateInstant(inv[c].body, k)
                            => ~Attempted(inv[c].eventId, OffsetNames[k])'
                  /\ IsPast(Num(now), Num(now))
                  /\ NotBeforeEvent(Num(EventInstant(inv[c].body)),
                                    Num(EventInstant(inv[c].body)))
      ]_vars

\* a schedule is held, and a submission whose OneDay candidate is the very
\* instant of its calls has returned 200 without a request
C3_Witness ==
    /\ schedules # {}
    /\ \E c \in Containers :
          /\ WellFormed(inv[c].body)
          /\ Returned(c) /\ Status(c) = 200
          /\ now = CandidateInstant(inv[c].body, 3)
          /\ RequestsBy(scheduleLog, inv[c].eventId) = {}

-----------------------------------------------------------------------------
(* C4 *)

-----------------------------------------------------------------------------
(* C5 *)

-----------------------------------------------------------------------------
(* C6 *)

-----------------------------------------------------------------------------
(* C7 *)

\* a submission for a well-formed event, the target configured, has returned
\* without any rejected call
ReturnedUnfailed(c) ==
    /\ Submission(c)
    /\ WellFormed(inv[c].body)
    /\ env.ReminderLambdaArn # Undefined
    /\ Returned(c)
    /\ inv[c].fault = "none"

\* what holds of the submissions that have returned without any rejected call
SucceededAsFiltered ==
    \A c \in Containers :
        ReturnedUnfailed(c) =>
            /\ Status(c) = 200
            /\ inv[c].response.eventID = inv[c].eventId
            /\ inv[c].offset = Len(OffsetNames)
            /\ \A k \in 1..Len(OffsetNames) :
                  Registered(inv[c].eventId, OffsetNames[k])
                      <=> Attempted(inv[c].eventId, OffsetNames[k])
            /\ now < CandidateInstant(inv[c].body, 1)
                  => \A k \in 1..Len(OffsetNames) :
                        Registered(inv[c].eventId, OffsetNames[k])

\* C7: with the target configured, a submission for a well-formed event
\* issues the request for an offset exactly when, at the clock reading of
\* that createReminderRule call, the candidate (the event instant less 7, 3 or
\* 1 days) is in the future (it is strictly before the event by the
\* calendar); nine days ahead the request is issued, twelve hours ahead none
\* is; and once returned without any rejected call, the submission has the
\* success response with its EventID, made all three calls and holds a
\* schedule for exactly the offsets it issued a request for: all three when
\* even the OneWeek candidate is still in the future.
C7_RegisteredIffValid ==
    [][ /\ SucceededAsFiltered'
        /\ \A c \in Containers :
              ( /\ Submission(c)
                /\ WellFormed(inv[c].body)
                /\ env.ReminderLambdaArn # Undefined )
              => \A k \in Calls(c) :
                    /\ Attempted(inv[c].eventId, OffsetNames[k])'
                          <=> /\ now < CandidateInstant(inv[c].body, k)
                              /\ CandidateInstant(inv[c].body, k) < EventInstant(inv[c].body)
                    /\ EventInstant(inv[c].body) - now = 9 * MsPerDay
                          => Attempted(inv[c].eventId, OffsetNames[k])'
                    /\ EventInstant(inv[c].body) - now = 12 * 60 * 60 * 1000
                          => ~Attempted(inv[c].eventId, OffsetNames[k])'
      ]_vars

\* one submission sent nine days ahead holds its three schedules, another sent
\* twelve hours ahead holds none; both were answered 200
C7_Witness ==
    \E c, d \in Containers :
        /\ ReturnedUnfailed(c) /\ Status(c) = 200
        /\ inv[c].body.eventDate = "2030-06-10"
        /\ \A k \in 1..Len(OffsetNames) : Registered(inv[c].eventId, OffsetNames[k])
        /\ ReturnedUnfailed(d) /\ Status(d) = 200
        /\ EventInstant(inv[d].body) - now = 12 * 60 * 60 * 1000
        /\ RequestsBy(scheduleLog, inv[d].eventId) = {}

-----------------------------------------------------------------------------
(* C8 *)

\* C8: no createSchedule request and no schedule is for the Immediate
\* reminder; every invoke request is an asynchronous invocation carrying the
\* Immediate reminder; a submission has issued at most one invoke request, and
\* exactly one once its record is in the table and the target is configured.
C8_ImmediateDirectOnce ==
    /\ \A x \in BagToSet(scheduleLog) :
          /\ x.request.Target.Input.reminderType # "Immediate"
          /\ x.request.Name # x.by \o "-Immediate"
    /\ \A s \in schedules : s.reminderType # "Immediate"
    /\ \A x \in BagToSet(invokeLog) :
          /\ x.request.InvocationType = "Event"
          /\ x.request.Payload.reminderType = "Immediate"
    /\ \A c \in Containers :
          inv[c].eventId # Undefined =>
              /\ CountBy(invokeLog, inv[c].eventId) <= 1
              /\ (Persisted(inv[c].eventId) /\ env.ReminderLambdaArn # Undefined)
                     => CountBy(invokeLog, inv[c].eventId) = 1
    /\ \A item \in table : CountBy(invokeLog, item.EventID) <= 1

\* a submission whose invoke was rejected has returned with its single invoke
\* request, and another submission holds schedules
C8_Witness ==
    /\ \E c \in Containers :
          /\ inv[c].fault = "invoke" /\ Returned(c)
          /\ CountBy(invokeLog, inv[c].eventId) = 1
    /\ schedules # {}

-----------------------------------------------------------------------------
(* C9 *)

\* C9: a POST answered 200 carries its EventID, and the table holds exactly
\* one item under that EventID, with the name, date and time of the body.
C9_SuccessHasPersistedRecord ==
    \A c \in Containers :
        (Submission(c) /\ Returned(c) /\ Status(c) = 200) =>
            /\ inv[c].response.eventID # Undefined
            /\ inv[c].response.eventID = inv[c].eventId
            /\ {item \in table : item.EventID = inv[c].response.eventID}
                  = {[EventID |-> inv[c].response.eventID,
                      EventName |-> inv[c].body.eventName,
                      EventDate |-> inv[c].body.eventDate,
                      EventTime |-> inv[c].body.eventTime]}

\* two POSTs for different days were answered 200
C9_Witness ==
    \E c, d \in Containers :
        /\ Submission(c) /\ Status(c) = 200 /\ inv[c].body.eventDate = "2030-06-02"
        /\ Submission(d) /\ Status(d) = 200 /\ inv[d].body.eventDate = "2030-06-10"
        /\ Cardinality(table) = 2

-----------------------------------------------------------------------------
(* C10 *)

\* C10: no two createSchedule requests carry the same Name: each request was
\* issued once, requests that differ differ in Name, a Name is the EventID of
\* its submission followed by - and the offset name, and two submissions in
\* progress or returned never have the same EventID.
C10_TriggerNamesUnique ==
    /\ \A x \in BagToSet(scheduleLog) :
          /\ scheduleLog[x] = 1
          /\ x.request.Name = x.by \o "-" \o x.request.Target.Input.reminderType
    /\ \A x, y \in BagToSet(scheduleLog) :
          x.request.Name = y.request.Name => x = y
    /\ \A s, t \in schedules : s.params.Name = t.params.Name => s = t
    /\ \A c, d \in Containers :
          (c # d /\ inv[c].eventId # Undefined) => inv[c].eventId # inv[d].eventId
    /\ \A item, other \in table : item.EventID = other.EventID => item = other

\* two submissions of the same event have each issued two requests or more
C10_Witness ==
    \E c, d \in Containers :
        /\ c # d
        /\ inv[c].body = inv[d].body
        /\ Cardinality(RequestsBy(scheduleLog, inv[c].eventId)) >= 2
        /\ Cardinality(RequestsBy(scheduleLog, inv[d].eventId)) >= 2

-----------------------------------------------------------------------------
(* C11 *)

\* the scheduler holds the very schedule the call in progress of caller c asks
\* for: same Name, expression, target and input
HeldAlready(c) ==
    /\ registrar.call[c].pc = "schedule"
    /\ Schedule(registrar.call[c].eventId, registrar.call[c].reminderType,
                registrar.call[c].timestamp, registrar.call[c].body, env)
           \in schedules

-----------------------------------------------------------------------------
(* C12 *)

\* the body gives a name, a date and a time, and the date is no calendar date
Malformed(body) ==
    /\ body.kind = "object"
    /\ body.eventName \notin {Undefined, ""}
    /\ body.eventTime \notin {Undefined, ""}
    /\ body.eventDate = "not-a-date"

-----------------------------------------------------------------------------
(* C13 *)

\* C13, as claimed: with ReminderLambdaArn or SchedulerRoleArn not set, no
\* record is written, no invoke request and no createSchedule request is
\* issued, and no schedule is created.
C13_Claimed ==
    (env.ReminderLambdaArn = Undefined \/ env.SchedulerRoleArn = Undefined) =>
        /\ table = {}
        /\ invokeLog = EmptyBag
        /\ scheduleLog = EmptyBag
        /\ schedules = {}

-----------------------------------------------------------------------------
(* C14 *)

\* C14: for a well-formed event with instant E (by the calendar), the
\* timestamps the handler has passed to createReminderRule for OneWeek,
\* ThreeDays and OneDay are E less 7, 3 and 1 times 24 hours of milliseconds,
\* and the event timestamp the tests use is E; every schedule held fires the
\* number of whole days of its reminder type before E.
C14_CandidatesAreExactOffsets ==
    /\ \A c \in Containers :
          (Submission(c) /\ WellFormed(inv[c].body)) =>
              /\ \A k \in 1..inv[c].offset :
                    Candidate(inv[c], k) =
                        Num(EventInstant(inv[c].body)
                              - (CASE k = 1 -> 7 [] k = 2 -> 3 [] k = 3 -> 1)
                                    * 24 * 60 * 60 * 1000)
              /\ inv[c].offset >= 1 =>
                    convertToUTCTimestamp(inv[c].body.eventDate,
                                          inv[c].body.eventTime, 0)
                        = Num(EventInstant(inv[c].body))
    /\ \A x \in BagToSet(scheduleLog) :
          WellFormed([kind |-> "object"] @@ x.request.Target.Input) =>
              x.request.ScheduleExpression =
                  LET E == EventInstant(x.request.Target.Input)
                      n == Days[x.request.Target.Input.reminderType]
                  IN  "cron(0 0 " \o ToString((E \div (24 * 60 * 60 * 1000)) + 1 - n)
                          \o " 6 ? 2030)"
    /\ \A s \in schedules :
          /\ s.eventAt = EventInstant(s.params.Target.Input)
          /\ s.eventAt - s.fires = Days[s.reminderType] * 24 * 60 * 60 * 1000

\* an event nine days ahead holds its three schedules, and the three calls
\* were made for an event one day ahead
C14_Witness ==
    \E c, d \in Containers :
        /\ inv[c].body.eventDate = "2030-06-10"
        /\ \A k \in 1..Len(OffsetNames) : Registered(inv[c].eventId, OffsetNames[k])
        /\ WellFormed(inv[d].body)
        /\ inv[d].body.eventDate = "2030-06-02"
        /\ inv[d].offset = 3

-----------------------------------------------------------------------------
(* C15 *)

\* the last call of caller c rendered an expression and sent it
Rendered(c) == registrar.call[c].params # <<>>

\* the whole minutes from 2030-06-01T00:00:00Z to the timestamp of the call
MinuteOf(c) == registrar.call[c].timestamp.ms \div (60 * 1000)

\* C15: of two createReminderRule calls that sent a request, the expressions
\* are the same exactly when the timestamps lie in the same UTC minute; the
\* expression names the minute, hour and day of the start of that minute,
\* and a schedule created from it fires at the start of that minute.
C15_WholeMinuteOnly ==
    /\ \A c, d \in Containers :
          (Rendered(c) /\ Rendered(d)) =>
              ( CallParams(registrar.call[c]).ScheduleExpression
                    = CallParams(registrar.call[d]).ScheduleExpression
                <=> MinuteOf(c) = MinuteOf(d) )
    /\ \A c \in Containers :
          Rendered(c) =>
              /\ CallParams(registrar.call[c]).ScheduleExpression =
                    "cron(" \o ToString(MinuteOf(c) % 60) \o " "
                            \o ToString((MinuteOf(c) \div 60) % 24) \o " "
                            \o ToString((MinuteOf(c) \div (60 * 24)) + 1)
                            \o " 6 ? 2030)"
              /\ registrar.call[c].outcome = "returns" =>
                    \E s \in schedules :
                        /\ s.params = CallParams(registrar.call[c])
                        /\ s.fires = MinuteOf(c) * 60 * 1000

\* two calls in the same minute, one at second 0 and one at second 59, have
\* each sent a request
C15_Witness ==
    \E c, d \in Containers :
        /\ Rendered(c) /\ Rendered(d)
        /\ registrar.call[c].timestamp = Num(2 * 24 * 60 * 60 * 1000)
        /\ registrar.call[d].timestamp = Num(2 * 24 * 60 * 60 * 1000 + 59 * 1000)

\* two calls a minute apart, at second 59 and at the next second 0, have
\* each sent a request
C15_WitnessApart ==
    \E c, d \in Containers :
        /\ Rendered(c) /\ Rendered(d)
        /\ registrar.call[c].timestamp = Num(2 * 24 * 60 * 60 * 1000 + 59 * 1000)
        /\ registrar.call[d].timestamp = Num(2 * 24 * 60 * 60 * 1000 + 60 * 1000)

-----------------------------------------------------------------------------
(* C16 *)

\* C16: an invocation whose method is not POST returns in the step that
\* receives it: 200 with an empty body for OPTIONS, 405 for any other method,
\* without an EventID; the step leaves the table, the invoke and
\* createSchedule requests and the schedules as they were, and no record,
\* request or schedule is ever marked with such an invocation.
C16_NonPostHasNoEffect ==
    [][ /\ ( /\ invocations' # invocations
             /\ \A c \in Containers : inv'[c] # inv[c] => inv'[c].method # "POST" )
            => /\ table' = table
               /\ invokeLog' = invokeLog
               /\ scheduleLog' = scheduleLog
               /\ schedules' = schedules
        /\ \A c \in Containers :
            (inv'[c] # inv[c] /\ inv'[c].method # "POST") =>
                /\ inv'[c].pc = "done"
                /\ inv'[c].response =
                      IF inv'[c].method = "OPTIONS"
                      THEN [statusCode |-> 200, message |-> "", eventID |-> Undefined]
                      ELSE [statusCode |-> 405, message |-> "Method Not Allowed",
                            eventID |-> Undefined]
                /\ inv'[c].eventId = Undefined
                /\ inv'[c].offset = 0
                /\ table' = table
                /\ uuids' = uuids
                /\ invokeLog' = invokeLog
                /\ scheduleLog' = scheduleLog
                /\ schedules' = schedules
      ]_vars

\* an OPTIONS and a GET invocation have returned, and the table and the
\* invoke requests are empty
C16_Witness ==
    \E c, d \in Containers :
        /\ inv[c].method = "OPTIONS" /\ Status(c) = 200
        /\ inv[d].method = "GET" /\ Status(d) = 405
        /\ table = {}
        /\ invokeLog = EmptyBag

-----------------------------------------------------------------------------
(* C17 *)

\* what the step at hand adds to a log
Added(log, logAfter) == BagToSet(logAfter (-) log)

\* the body of a request's event, as the handler holds it
BodyOf(fields) ==
    [kind |-> "object", eventName |-> fields.eventName,
     eventDate |-> fields.eventDate, eventTime |-> fields.eventTime]

\* C17: under every interleaving, a step of one submission leaves every other
\* invocation as it was and removes nothing; what it adds is its own: the
\* record keyed by its EventID, which no other invocation has, with the
\* fields of its body, one invoke request for its body, and createSchedule
\* requests and schedules named with its EventID, built from its body, its
\* reminder type and the timestamp of that type alone.
C17_NoInterference ==
    [][ \A c \in Containers :
            inv'[c] # inv[c] =>
                /\ \A d \in Containers \ {c} :
                      /\ inv'[d] = inv[d]
                      /\ inv'[c].eventId # Undefined => inv[d].eventId # inv'[c].eventId
                /\ table \subseteq table'
                /\ invokeLog \sqsubseteq invokeLog'
                /\ scheduleLog \sqsubseteq scheduleLog'
                /\ schedules \subseteq schedules'
                /\ \A item \in table' \ table :
                      item = [EventID |-> inv'[c].eventId,
                              EventName |-> inv'[c].body.eventName,
                              EventDate |-> inv'[c].body.eventDate,
                              EventTime |-> inv'[c].body.eventTime]
                /\ \A x \in Added(invokeLog, invokeLog') :
                      /\ x.by = inv'[c].eventId
                      /\ BodyOf(x.request.Payload) = inv'[c].body
                      /\ (invokeLog' (-) invokeLog)[x] = 1
                /\ \A x \in Added(scheduleLog, scheduleLog') :
                      /\ x.by = inv'[c].eventId
                      /\ x.request =
                            ScheduleParams(inv'[c].eventId,
                                ReminderPlan[inv'[c].offset].reminderType,
                                convertToUTCTimestamp(inv'[c].body.eventDate,
                                    inv'[c].body.eventTime,
                                    ReminderPlan[inv'[c].offset].daysBefore),
                                inv'[c].body, env)
                      /\ x.request.Name =
                            inv'[c].eventId \o "-" \o OffsetNames[inv'[c].offset]
                /\ \A s \in schedules' \ schedules :
                      /\ s.by = inv[c].eventId
                      /\ s.params.Name = inv[c].eventId \o "-" \o s.reminderType
                      /\ BodyOf(s.params.Target.Input) = inv[c].body
                      /\ \E x \in BagToSet(scheduleLog) :
                            x.by = inv[c].eventId /\ x.request = s.params
      ]_vars

\* two submissions of the same event are both under way between their puts
\* and their returns, each with its record, one with a schedule held and the
\* other awaiting the scheduler for its first
C17_Witness ==
    \E c, d \in Containers :
        /\ c # d
        /\ inv[c].pc = "schedule" /\ inv[c].offset = 2
        /\ inv[d].pc = "schedule" /\ inv[d].offset = 1
        /\ Persisted(inv[c].eventId) /\ Persisted(inv[d].eventId)
        /\ Registered(inv[c].eventId, "OneWeek")
        /\ ~Registered(inv[d].eventId, "OneWeek")

-----------------------------------------------------------------------------
(* C18 *)

\* C18: no step removes or changes a record of the table, a schedule the
\* scheduler holds or a request issued; a submission that has returned 500
\* after its put succeeded has its record in the table, with the fields of
\* its body, and the schedule of every request of its that the scheduler
\* accepted.
C18_OnlyAdds ==
    [][ /\ table \subseteq table'
        /\ schedules \subseteq schedules'
        /\ invokeLog \sqsubseteq invokeLog'
        /\ scheduleLog \sqsubseteq scheduleLog'
        /\ \A c \in Containers :
              ( /\ inv'[c].pc = "done"
                /\ inv'[c].response.statusCode = 500
                /\ inv'[c].fault \in {"config", "invoke", "schedule"} )
              => /\ [EventID |-> inv'[c].eventId,
                      EventName |-> inv'[c].body.eventName,
                      EventDate |-> inv'[c].body.eventDate,
                      EventTime |-> inv'[c].body.eventTime] \in table'
                 /\ \A k \in 1..Len(OffsetNames) :
                       ( /\ inv'[c].fault = "schedule"
                         /\ k < inv'[c].offset
                         /\ Attempted(inv[c].eventId, OffsetNames[k])' )
                       => Registered(inv[c].eventId, OffsetNames[k])'
      ]_vars

\* a submission has returned 500 on the rejection of its ThreeDays request, and
\* after it a second submission was received and its record written: the
\* first one's record and OneWeek schedule are in place
C18_Witness ==
    \E c, d \in Containers :
        /\ inv[c].fault = "schedule" /\ inv[c].offset = 2 /\ Status(c) = 500
        /\ inv[c].eventId = "uuid-1"
        /\ Registered("uuid-1", "OneWeek")
        /\ Persisted("uuid-1")
        /\ inv[d].eventId = "uuid-2"
        /\ Persisted("uuid-2")

-----------------------------------------------------------------------------
(* C19 *)

\* C19: for a well-formed event, the timestamp of each createReminderRule
\* call the handler has made is strictly before the event timestamp, so the
\* test timestamp >= eventTimestamp is false of it, and every call that
\* returned without a request returned on the first test, timestamp <=
\* currentTimestamp: the calls made are those that issued a request and
\* those skipped as past.
C19_OnlyPastRejects ==
    \A c \in Containers :
        ( /\ Submission(c)
          /\ WellFormed(inv[c].body)
          /\ env.ReminderLambdaArn # Undefined ) =>
            /\ \A k \in 1..inv[c].offset :
                  /\ CandidateInstant(inv[c].body, k) < EventInstant(inv[c].body)
                  /\ ~NotBeforeEvent(Candidate(inv[c], k),
                                     convertToUTCTimestamp(inv[c].body.eventDate,
                                                           inv[c].body.eventTime, 0))
                  /\ \/ Attempted(inv[c].eventId, OffsetNames[k])
                     \/ [offset |-> k, why |-> "past"] \in inv[c].skipped
            /\ \A e \in inv[c].skipped :
                  /\ e.why = "past"
                  /\ e.offset \in 1..inv[c].offset
                  /\ ~Attempted(inv[c].eventId, OffsetNames[e.offset])

\* a submission for an event one day ahead has returned with its three calls
\* skipped, and one for an event nine days ahead has made its three calls
\* with none skipped and ThreeDays registered
C19_Witness ==
    \E c, d \in Containers :
        /\ ReturnedUnfailed(c)
        /\ inv[c].body.eventDate = "2030-06-02"
        /\ Cardinality(inv[c].skipped) = 3
        /\ WellFormed(inv[d].body)
        /\ inv[d].body.eventDate = "2030-06-10"
        /\ inv[d].offset = 3
        /\ inv[d].skipped = {}
        /\ Registered(inv[d].eventId, "ThreeDays")
====
